---- MODULE Spec2Model ----
(***************************************************************************)
(* The Ollama language-model provider of crates/language_model:            *)
(* the provider state (available models, refreshed by backend probes),     *)
(* the model instances handed out by provided_models, each with its own    *)
(* RateLimiter, and the stream_completion pipeline of a model instance;    *)
(* and the terminals of a Project of crates/project.                       *)
(***************************************************************************)
EXTENDS Integers, Sequences, FiniteSets, TLC

(***************************************************************************)
(* Bounds of the model.                                                    *)
(***************************************************************************)
\* completion calls made on model instances
NumCalls == 5
\* tasks created by the provider (the constructor's probe included)
MaxTasks == 2
\* model instances obtained from provided_models
MaxInstances == 1
\* models listed in one backend report
MaxReport == 2
\* events of one backend response stream
MaxEvents == 3

(***************************************************************************)
(* Model names are strings, modelled as sequences of byte codes, so that   *)
(* ordering and substring search are computed as Rust computes them.       *)
(***************************************************************************)
NameA == <<97>>
NameB == <<98>>
NameAEmbed == <<97, 45, 101, 109, 98, 101, 100>>
EmbedMarker == <<45, 101, 109, 98, 101, 100>>
ModelNames == {NameA, NameB, NameAEmbed}

\* str::contains: pat occurs in s as a contiguous substring
Contains(s, pat) ==
    \E i \in 0..(Len(s) - Len(pat)) :
        \A j \in 1..Len(pat) : s[i + j] = pat[j]

\* String's Ord: bytewise lexicographic order; -1, 0, 1 for Less, Equal, Greater
RECURSIVE NameCmp(_, _)
NameCmp(a, b) ==
    IF a = <<>> /\ b = <<>> THEN 0
    ELSE IF a = <<>> THEN -1
    ELSE IF b = <<>> THEN 1
    ELSE IF Head(a) < Head(b) THEN -1
    ELSE IF Head(a) > Head(b) THEN 1
    ELSE NameCmp(Tail(a), Tail(b))

\* ollama::Model::new(&name), as far as the provider reads it: the context
\* window and the keep-alive it gives the model are values fixed by the name
NewModel(name) ==
    [name |-> name,
     max_tokens |-> <<"max_tokens", name>>,
     keep_alive |-> <<"keep_alive", name>>]

\* the filter of fetch_models: models with "-embed" in their name are left out
FilterEmbed(report) ==
    SelectSeq(report, LAMBDA n : ~Contains(n, EmbedMarker))

\* insertion of one model into a list sorted by name, after its equals (stable)
RECURSIVE InsertByName(_, _)
InsertByName(m, sorted) ==
    IF sorted = <<>> THEN <<m>>
    ELSE IF NameCmp(m.name, Head(sorted).name) < 0 THEN <<m>> \o sorted
    ELSE <<Head(sorted)>> \o InsertByName(m, Tail(sorted))

\* SortByName, but the list is left in the backend's order
KeepBackendOrder(models) == models

\* models.sort_by(|a, b| a.name.cmp(&b.name))
RECURSIVE SortByName(_)
SortByName(models) ==
    IF models = <<>> THEN <<>>
    ELSE InsertByName(models[Len(models)],
                      SortByName(SubSeq(models, 1, Len(models) - 1)))

\* the list fetch_models installs for a backend report
FetchedModels(report) ==
    LET kept == FilterEmbed(report)
    IN  SortByName([i \in 1..Len(kept) |-> NewModel(kept[i])])

\* the lists of distinct names the backend may report
RECURSIVE ReportsOfLen(_)
ReportsOfLen(n) ==
    IF n = 0 THEN {<<>>}
    ELSE {Append(r, m) : r \in ReportsOfLen(n - 1), m \in ModelNames}

NoRepeat(r) == \A i, j \in 1..Len(r) : i # j => r[i] # r[j]

BackendReports ==
    {r \in UNION {ReportsOfLen(n) : n \in 0..MaxReport} : NoRepeat(r)}

\* the reports used where the provider runs with its callers: none, one
\* model, two out of order, and one to be filtered out
SampleReports ==
    {<<>>, <<NameB>>, <<NameB, NameA>>, <<NameA, NameAEmbed>>}

(***************************************************************************)
(* Backend response events and the items of a completion stream.           *)
(***************************************************************************)
Roles == {"User", "Assistant", "System"}

DeltaEvent(role, content) == [ok |-> TRUE, role |-> role, content |-> content]
ErrorEvent(error) == [ok |-> FALSE, role |-> "none", content |-> error]

BackendEvents ==
    {DeltaEvent("User", "Hi"), DeltaEvent("Assistant", " there"),
     DeltaEvent("System", "!"), ErrorEvent("parse")}

RECURSIVE StreamsOfLen(_)
StreamsOfLen(n) ==
    IF n = 0 THEN {<<>>}
    ELSE {Append(s, e) : s \in StreamsOfLen(n - 1), e \in BackendEvents}

\* every response stream of at most MaxEvents events
AllStreams == UNION {StreamsOfLen(n) : n \in 0..MaxEvents}

\* the response streams used where the content does not matter
ShortStreams == {<<DeltaEvent("Assistant", "Hi")>>}

\* the response stream that carries no event
EmptyStreams == {<<>>}

VARIABLES
    available_models,   \* State.available_models
    tasks,              \* the Task<Result<()>> values the provider created
    notify_count,       \* number of cx.notify() calls on the State entity
    app_alive,          \* whether the application state still exists
    instances,          \* the OllamaLanguageModel instances handed out
    calls,              \* the stream_completion calls
    requests,           \* number of chat requests issued to the backend
    observed,           \* the list the subscriber read in its last callback
    last_report,        \* the backend report the last successful probe installed,
                        \* and which task that probe was
    project             \* the Project and the terminals created in it

vars == <<available_models, tasks, notify_count, app_alive, instances, calls,
          requests, observed, last_report, project>>

(***************************************************************************)
(* Project (crates/project/src/terminals.rs): the terminals created in a   *)
(* project.  A terminal's id is its index in terminals; local_handles are  *)
(* the weak handles, by id; result is what the last create_terminal call   *)
(* returned.                                                               *)
(***************************************************************************)
NewProject(is_remote) ==
    [is_remote |-> is_remote, terminals |-> <<>>, local_handles |-> <<>>,
     notify_count |-> 0, result |-> <<>>]

(***************************************************************************)
(* RateLimiter (crates/language_model/src/rate_limiter.rs): a counting     *)
(* admission gate.  A permit is taken before the operation starts and is   *)
(* given back when the guard that holds it is dropped.                     *)
(***************************************************************************)
\* the capacity provided_models gives every model instance
LimiterCapacity == 4

RateLimiter_new(capacity) == [capacity |-> capacity, in_flight |-> 0]

\* a permit is free: an acquire does not suspend
RateLimiter_permit_free(limiter) == limiter.in_flight < limiter.capacity

RateLimiter_acquire(limiter) == [limiter EXCEPT !.in_flight = @ + 1]

\* the guard is dropped
RateLimiter_release(limiter) == [limiter EXCEPT !.in_flight = @ - 1]

(***************************************************************************)
(* The provider state.                                                     *)
(***************************************************************************)
\* State_is_authenticated, but a flag of its own: some probe has succeeded
AuthenticatedOnceProbed ==
    \E p \in DOMAIN tasks : tasks[p].probe /\ tasks[p].status = "ok"

\* State::is_authenticated
State_is_authenticated == available_models # <<>>

\* OllamaLanguageModelProvider::is_authenticated
is_authenticated == State_is_authenticated

\* no probe has installed a report yet
NoReport == [got |-> FALSE, names |-> <<>>, task |-> 0]

\* where the error of a task goes: the tasks of new and of the settings
\* observer are detached, those of retry_connection and load_model are
\* detached with detach_and_log_err, the others are returned to the caller
ErrorSink(origin) ==
    CASE origin \in {"new", "settings"} -> "dropped"
      [] origin \in {"retry_connection", "load_model"} -> "log"
      [] origin \in {"authenticate", "reset_credentials"} -> "caller"

\* a task that runs a backend probe, and a task that is ready at once
ProbeTask(origin) ==
    [origin |-> origin, status |-> "pending", probe |-> TRUE,
     sink |-> ErrorSink(origin)]
ReadyTask(origin) ==
    [origin |-> origin, status |-> "ok", probe |-> FALSE,
     sink |-> ErrorSink(origin)]
\* the task load_model spawns: it asks the backend to preload the model
PreloadTask ==
    [origin |-> "load_model", status |-> "pending", probe |-> FALSE,
     sink |-> ErrorSink("load_model")]

\* State::fetch_models up to the spawn: a new probe is in flight, the state
\* is not touched
fetch_models(origin) ==
    /\ Len(tasks) < MaxTasks
    /\ tasks' = Append(tasks, ProbeTask(origin))

\* ProbeFail, but the failure empties the snapshot
ProbeFailClearing(p) ==
    /\ p \in DOMAIN tasks
    /\ tasks[p].probe
    /\ tasks[p].status = "pending"
    /\ tasks' = [tasks EXCEPT ![p].status = "err"]
    /\ available_models' = <<>>
    /\ notify_count' = notify_count + 1
    /\ observed' = available_models'
    /\ UNCHANGED <<app_alive, instances, calls, requests, last_report, project>>

\* the spawned probe fails at get_models(..).await?: the task ends with the
\* error and the update closure never runs
ProbeFail(p) ==
    /\ p \in DOMAIN tasks
    /\ tasks[p].probe
    /\ tasks[p].status = "pending"
    /\ tasks' = [tasks EXCEPT ![p].status = "err"]
    /\ UNCHANGED <<available_models, notify_count, app_alive, instances,
                   calls, requests,
                   observed, last_report, project>>

\* ProbeSucceed, but the subscriber's callback runs before the new list is
\* installed
ProbeSucceedNotifyFirst(p, report) ==
    /\ p \in DOMAIN tasks
    /\ tasks[p].probe
    /\ tasks[p].status = "pending"
    /\ IF app_alive
       THEN /\ observed' = available_models
            /\ notify_count' = notify_count + 1
            /\ available_models' = FetchedModels(report)
            /\ last_report' = [got |-> TRUE, names |-> report, task |-> p]
            /\ tasks' = [tasks EXCEPT ![p].status = "ok"]
       ELSE /\ tasks' = [tasks EXCEPT ![p].status = "err"]
            /\ UNCHANGED <<available_models, notify_count, observed,
                           last_report>>
    /\ UNCHANGED <<app_alive, instances, calls, requests, project>>

\* ProbeSucceed, but the list of a probe is dropped when a probe that was
\* started later has already installed its list
ProbeSucceedNewestWins(p, report) ==
    /\ p \in DOMAIN tasks
    /\ tasks[p].probe
    /\ tasks[p].status = "pending"
    /\ IF app_alive
       THEN /\ tasks' = [tasks EXCEPT ![p].status = "ok"]
            /\ IF last_report.task > p
               THEN UNCHANGED <<available_models, notify_count, observed,
                                last_report>>
               ELSE /\ available_models' = FetchedModels(report)
                    /\ notify_count' = notify_count + 1
                    /\ observed' = available_models'
                    /\ last_report' = [got |-> TRUE, names |-> report,
                                       task |-> p]
       ELSE /\ tasks' = [tasks EXCEPT ![p].status = "err"]
            /\ UNCHANGED <<available_models, notify_count, observed,
                           last_report>>
    /\ UNCHANGED <<app_alive, instances, calls, requests, project>>

\* the spawned probe gets the backend's report: filter, sort, then
\* this.update installs the list and notifies (an error when the entity or
\* the application is gone)
ProbeSucceed(p, report) ==
    /\ p \in DOMAIN tasks
    /\ tasks[p].probe
    /\ tasks[p].status = "pending"
    /\ IF app_alive
       THEN /\ available_models' = FetchedModels(report)
            /\ notify_count' = notify_count + 1
            /\ observed' = available_models'
            /\ last_report' = [got |-> TRUE, names |-> report, task |-> p]
            /\ tasks' = [tasks EXCEPT ![p].status = "ok"]
       ELSE /\ tasks' = [tasks EXCEPT ![p].status = "err"]
            /\ UNCHANGED <<available_models, notify_count, observed,
                           last_report>>
    /\ UNCHANGED <<app_alive, instances, calls, requests, project>>

\* SettingsChanged, but the observer only notifies
SettingsChangedNotifyOnly ==
    /\ app_alive
    /\ notify_count' = notify_count + 1
    /\ observed' = available_models
    /\ UNCHANGED <<available_models, tasks, app_alive, instances, calls,
                   requests, last_report, project>>

\* the observer of the settings store, registered by new: a detached probe
\* and a notification
SettingsChanged ==
    /\ app_alive
    /\ fetch_models("settings")
    /\ notify_count' = notify_count + 1
    /\ observed' = available_models
    /\ UNCHANGED <<available_models, app_alive, instances, calls, requests,
                   last_report, project>>

\* authenticate, but a probe is started whatever the status
authenticateAlwaysProbing ==
    /\ app_alive
    /\ fetch_models("authenticate")
    /\ UNCHANGED <<available_models, notify_count, app_alive, instances,
                   calls, requests, observed, last_report, project>>

\* OllamaLanguageModelProvider::authenticate
authenticate ==
    /\ app_alive
    /\ IF is_authenticated
       THEN /\ Len(tasks) < MaxTasks
            /\ tasks' = Append(tasks, ReadyTask("authenticate"))
       ELSE fetch_models("authenticate")
    /\ UNCHANGED <<available_models, notify_count, app_alive, instances,
                   calls, requests,
                   observed, last_report, project>>

\* OllamaLanguageModelProvider::reset_credentials
reset_credentials ==
    /\ app_alive
    /\ fetch_models("reset_credentials")
    /\ UNCHANGED <<available_models, notify_count, app_alive, instances,
                   calls, requests,
                   observed, last_report, project>>

\* ConfigurationView::retry_connection
retry_connection ==
    /\ app_alive
    /\ fetch_models("retry_connection")
    /\ UNCHANGED <<available_models, notify_count, app_alive, instances,
                   calls, requests,
                   observed, last_report, project>>

\* OllamaLanguageModelProvider::load_model for the model of instance i: the
\* preload is spawned and detached, the call returns nothing
load_model(i) ==
    /\ app_alive
    /\ i \in DOMAIN instances
    /\ Len(tasks) < MaxTasks
    /\ tasks' = Append(tasks, PreloadTask)
    /\ UNCHANGED <<available_models, notify_count, app_alive, instances,
                   calls, requests, observed, last_report, project>>

\* PreloadEnd, but a failed preload empties the snapshot
PreloadEndUnauthenticating(p, status) ==
    /\ p \in DOMAIN tasks
    /\ ~tasks[p].probe
    /\ tasks[p].status = "pending"
    /\ tasks' = [tasks EXCEPT ![p].status = status]
    /\ available_models' = IF status = "err" THEN <<>> ELSE available_models
    /\ UNCHANGED <<notify_count, app_alive, instances, calls, requests,
                   observed, last_report, project>>

\* preload_model(..).await ends, with success or with an error: the task
\* ends with it
PreloadEnd(p, status) ==
    /\ p \in DOMAIN tasks
    /\ ~tasks[p].probe
    /\ tasks[p].status = "pending"
    /\ tasks' = [tasks EXCEPT ![p].status = status]
    /\ UNCHANGED <<available_models, notify_count, app_alive, instances,
                   calls, requests, observed, last_report, project>>

\* OllamaLanguageModelProvider::provided_models: one fresh instance, with a
\* limiter of its own, per model of the snapshot, in the snapshot's order
provided_models ==
    [k \in 1..Len(available_models) |->
        [id |-> available_models[k].name,
         model |-> available_models[k],
         request_limiter |-> RateLimiter_new(LimiterCapacity)]]

\* a caller looks the models up and keeps the k-th instance
LookupModel(k) ==
    /\ app_alive
    /\ Len(instances) < MaxInstances
    /\ k \in DOMAIN provided_models
    /\ instances' = Append(instances, provided_models[k])
    /\ UNCHANGED <<available_models, tasks, notify_count, app_alive, calls,
                   requests,
                   observed, last_report, project>>

\* the application state is dropped
AppQuit ==
    /\ app_alive
    /\ app_alive' = FALSE
    /\ UNCHANGED <<available_models, tasks, notify_count, instances, calls,
                   requests,
                   observed, last_report, project>>

(***************************************************************************)
(* OllamaLanguageModel::stream_completion.                                 *)
(*   pc       idle: not called; waiting: suspended on the limiter;         *)
(*            requesting: permit held, chat request issued; streaming: the *)
(*            stream is with the consumer; ended                           *)
(*   outcome  what the call's future resolved to                           *)
(*   script   the events of the backend's response stream                  *)
(*   pos      how many of them the stream has consumed                     *)
(*   delivered  the items the consumer got from the stream                 *)
(*   reply    what count_tokens, use_any_tool or use_tool returned, when   *)
(*            the call was one of these: <<>> or one record                *)
(***************************************************************************)
IdleCall ==
    [pc |-> "idle", inst |-> 0, outcome |-> "none", script |-> <<>>,
     pos |-> 0, delivered |-> <<>>, reply |-> <<>>]

\* a call that is over: the future, the stream and its guard are dropped,
\* what is left is what the call resolved to
EndedCall(call, outcome) ==
    [IdleCall EXCEPT !.pc = "ended", !.inst = call.inst, !.outcome = outcome]

\* the limiter of the instance a call was made on
LimiterOf(c) == instances[calls[c].inst].request_limiter

\* the guard of call c is dropped
Released(c) ==
    [instances EXCEPT ![calls[c].inst].request_limiter =
                          RateLimiter_release(@)]

\* StreamCompletion, but a missing application state becomes a stream of one
\* error item
StreamCompletionErrorStream(c, i) ==
    /\ calls[c].pc = "idle"
    /\ i \in DOMAIN instances
    /\ IF app_alive
       THEN calls' = [calls EXCEPT ![c] = [@ EXCEPT !.pc = "waiting",
                                                  !.inst = i]]
       ELSE calls' = [calls EXCEPT ![c] =
                        [@ EXCEPT !.pc = "streaming", !.inst = i,
                                  !.outcome = "stream",
                                  !.script = <<[ok |-> FALSE, role |-> "none",
                                                content |-> "App state dropped"]>>]]
    /\ UNCHANGED <<available_models, tasks, notify_count, app_alive,
                   instances, requests,
                   observed, last_report, project>>

\* the call itself: the settings are read from the application state, which
\* fails at once when that is gone; otherwise the future of the limiter's
\* stream is returned and awaited
StreamCompletion(c, i) ==
    /\ calls[c].pc = "idle"
    /\ i \in DOMAIN instances
    /\ IF app_alive
       THEN calls' = [calls EXCEPT ![c] = [@ EXCEPT !.pc = "waiting",
                                                  !.inst = i]]
       ELSE calls' = [calls EXCEPT ![c] =
                        EndedCall([@ EXCEPT !.inst = i], "app_dropped")]
    /\ UNCHANGED <<available_models, tasks, notify_count, app_alive,
                   instances, requests,
                   observed, last_report, project>>

\* Admit, but the chat request does not wait for a permit
AdmitWithoutPermit(c) ==
    /\ calls[c].pc = "waiting"
    /\ instances' = [instances EXCEPT ![calls[c].inst].request_limiter =
                                          RateLimiter_acquire(@)]
    /\ requests' = requests + 1
    /\ calls' = [calls EXCEPT ![c].pc = "requesting"]
    /\ UNCHANGED <<available_models, tasks, notify_count, app_alive,
                   observed, last_report, project>>

\* the limiter admits the call and the future given to it starts: the chat
\* request is issued
Admit(c) ==
    /\ calls[c].pc = "waiting"
    /\ RateLimiter_permit_free(LimiterOf(c))
    /\ instances' = [instances EXCEPT ![calls[c].inst].request_limiter =
                                          RateLimiter_acquire(@)]
    /\ requests' = requests + 1
    /\ calls' = [calls EXCEPT ![c].pc = "requesting"]
    /\ UNCHANGED <<available_models, tasks, notify_count, app_alive,
                   observed, last_report, project>>

\* ResponseErr, but the failed request also empties the provider's snapshot
ResponseErrUnauthenticating(c) ==
    /\ calls[c].pc = "requesting"
    /\ instances' = Released(c)
    /\ calls' = [calls EXCEPT ![c] = EndedCall(@, "error")]
    /\ available_models' = <<>>
    /\ UNCHANGED <<tasks, notify_count, app_alive, requests, observed,
                   last_report, project>>

\* stream_chat_completion(..).await? fails: the call resolves to the error
ResponseErr(c) ==
    /\ calls[c].pc = "requesting"
    /\ instances' = Released(c)
    /\ calls' = [calls EXCEPT ![c] = EndedCall(@, "error")]
    /\ UNCHANGED <<available_models, tasks, notify_count, app_alive,
                   requests,
                   observed, last_report, project>>

\* ResponseOk, but the guard is dropped once the stream is built
ResponseOkReleasing(c, script) ==
    /\ calls[c].pc = "requesting"
    /\ instances' = Released(c)
    /\ calls' = [calls EXCEPT ![c] = [@ EXCEPT !.pc = "streaming",
                                               !.outcome = "stream",
                                               !.script = script]]
    /\ UNCHANGED <<available_models, tasks, notify_count, app_alive,
                   requests,
                   observed, last_report, project>>

\* the backend answers with a response stream: the call resolves to the
\* stream, which keeps the guard
ResponseOk(c, script) ==
    /\ calls[c].pc = "requesting"
    /\ calls' = [calls EXCEPT ![c] = [@ EXCEPT !.pc = "streaming",
                                               !.outcome = "stream",
                                               !.script = script]]
    /\ UNCHANGED <<available_models, tasks, notify_count, app_alive,
                   instances, requests,
                   observed, last_report, project>>

\* CancelCall, but the guard of a dropped future is kept
CancelCallLeaking(c) ==
    /\ calls[c].pc \in {"waiting", "requesting"}
    /\ calls' = [calls EXCEPT ![c] = EndedCall(@, "cancelled")]
    /\ UNCHANGED <<available_models, tasks, notify_count, app_alive,
                   instances, requests,
                   observed, last_report, project>>

\* the caller drops the future before it resolved
CancelCall(c) ==
    /\ calls[c].pc \in {"waiting", "requesting"}
    /\ instances' = IF calls[c].pc = "requesting" THEN Released(c)
                    ELSE instances
    /\ calls' = [calls EXCEPT ![c] = EndedCall(@, "cancelled")]
    /\ UNCHANGED <<available_models, tasks, notify_count, app_alive,
                   requests,
                   observed, last_report, project>>

\* StreamItem, but only the deltas tagged Assistant get through
StreamItemAssistantOnly(event) ==
    IF event.ok
    THEN IF event.role = "Assistant"
         THEN <<[ok |-> TRUE, text |-> event.content]>>
         ELSE <<>>
    ELSE <<[ok |-> FALSE, text |-> event.content]>>

\* the closure of filter_map: the items one backend event becomes
StreamItem(event) ==
    IF event.ok
    THEN LET content ==
                 CASE event.role = "User" -> event.content
                   [] event.role = "Assistant" -> event.content
                   [] event.role = "System" -> event.content
         IN  <<[ok |-> TRUE, text |-> content]>>
    ELSE <<[ok |-> FALSE, text |-> event.content]>>

\* the consumer polls the stream: the next backend event goes through the
\* closure; when the backend's stream is over, so is this one
PollNext(c) ==
    /\ calls[c].pc = "streaming"
    /\ IF calls[c].pos < Len(calls[c].script)
       THEN /\ calls' = [calls EXCEPT ![c] =
                          [@ EXCEPT !.pos = @ + 1,
                                    !.delivered =
                                        @ \o StreamItem(calls[c].script[calls[c].pos + 1])]]
            /\ UNCHANGED instances
       ELSE /\ instances' = Released(c)
            /\ calls' = [calls EXCEPT ![c] = EndedCall(@, "stream")]
    /\ UNCHANGED <<available_models, tasks, notify_count, app_alive,
                   requests,
                   observed, last_report, project>>

\* the consumer drops the stream
DropStream(c) ==
    /\ calls[c].pc = "streaming"
    /\ instances' = Released(c)
    /\ calls' = [calls EXCEPT ![c] = EndedCall(@, "stream")]
    /\ UNCHANGED <<available_models, tasks, notify_count, app_alive,
                   requests,
                   observed, last_report, project>>

(***************************************************************************)
(* LanguageModelRequest and the calls that answer at once.  A text is the  *)
(* sequence of its chars (Unicode scalar values).                          *)
(***************************************************************************)
\* chars of one message text
MaxChars == 5
\* messages of one request
MaxMessages == 2

RequestRoles == {"Role::User", "Role::Assistant", "Role::System"}

\* the text of n chars, and one text with a char outside ASCII
TextOfLen(n) == [k \in 1..n |-> 97]
Texts == {TextOfLen(n) : n \in 0..MaxChars} \cup {<<233, 97>>}

RequestMessages == [role : RequestRoles, content : Texts]

RECURSIVE MessagesOfLen(_)
MessagesOfLen(n) ==
    IF n = 0 THEN {<<>>}
    ELSE {Append(ms, m) : ms \in MessagesOfLen(n - 1), m \in RequestMessages}

\* every request of at most MaxMessages messages
Requests ==
    [messages : UNION {MessagesOfLen(n) : n \in 0..MaxMessages},
     stop : {<<>>, <<"END">>},
     temperature : {0, 1}]

\* the request used where its content does not matter
SampleRequests ==
    {[messages |-> <<[role |-> "Role::User", content |-> TextOfLen(5)]>>,
      stop |-> <<>>, temperature |-> 1]}

Ok(value) == [ok |-> TRUE, value |-> value]
Err(error) == [ok |-> FALSE, value |-> error]

\* msg.content.chars().count(), summed over the messages
RECURSIVE SumChars(_)
SumChars(messages) ==
    IF messages = <<>> THEN 0
    ELSE Len(Head(messages).content) + SumChars(Tail(messages))

\* count_tokens, but every message is divided on its own
count_tokensPerMessage(request) ==
    LET RECURSIVE SumQuarters(_)
        SumQuarters(messages) ==
            IF messages = <<>> THEN 0
            ELSE (Len(Head(messages).content) \div 4)
                     + SumQuarters(Tail(messages))
    IN  Ok(SumQuarters(request.messages))

\* OllamaLanguageModel::count_tokens
count_tokens(request) == Ok(SumChars(request.messages) \div 4)

\* a call of count_tokens on instance i: the future is ready with the count
CountTokens(c, i, request) ==
    /\ app_alive
    /\ calls[c].pc = "idle"
    /\ i \in DOMAIN instances
    /\ calls' = [calls EXCEPT ![c] =
                    [EndedCall([@ EXCEPT !.inst = i], "token_count")
                        EXCEPT !.reply = <<[op |-> "count_tokens",
                                            request |-> request,
                                            result |-> count_tokens(request)]>>]]
    /\ UNCHANGED <<available_models, tasks, notify_count, app_alive,
                   instances, requests, observed, last_report, project>>

\* Option::Some
Some(value) == <<value>>

\* a message of the backend's chat request: the variant of ChatMessage
ChatMessage(variant, content) == [variant |-> variant, content |-> content]

\* to_ollama_request, but a system message is sent as a user message
to_ollama_requestSystemAsUser(self, request) ==
    [model |-> self.model.name,
     messages |->
         [k \in 1..Len(request.messages) |->
             LET msg == request.messages[k]
             IN  CASE msg.role = "Role::User" ->
                          ChatMessage("User", msg.content)
                   [] msg.role = "Role::Assistant" ->
                          ChatMessage("Assistant", msg.content)
                   [] msg.role = "Role::System" ->
                          ChatMessage("User", msg.content)],
     keep_alive |-> <<"unwrap_or_default", self.model.keep_alive>>,
     stream |-> TRUE,
     options |-> [num_ctx |-> Some(self.model.max_tokens),
                  stop |-> Some(request.stop),
                  temperature |-> Some(request.temperature)]]

\* OllamaLanguageModel::to_ollama_request
to_ollama_request(self, request) ==
    [model |-> self.model.name,
     messages |->
         [k \in 1..Len(request.messages) |->
             LET msg == request.messages[k]
             IN  CASE msg.role = "Role::User" ->
                          ChatMessage("User", msg.content)
                   [] msg.role = "Role::Assistant" ->
                          ChatMessage("Assistant", msg.content)
                   [] msg.role = "Role::System" ->
                          ChatMessage("System", msg.content)],
     keep_alive |-> <<"unwrap_or_default", self.model.keep_alive>>,
     stream |-> TRUE,
     options |-> [num_ctx |-> Some(self.model.max_tokens),
                  stop |-> Some(request.stop),
                  temperature |-> Some(request.temperature)]]

\* the first step of stream_completion on instance i, on its own: the
\* request is translated for the backend
ToOllamaRequest(c, i, request) ==
    /\ calls[c].pc = "idle"
    /\ i \in DOMAIN instances
    /\ calls' = [calls EXCEPT ![c] =
                    [EndedCall([@ EXCEPT !.inst = i], "chat_request")
                        EXCEPT !.reply =
                            <<[op |-> "to_ollama_request",
                               request |-> request,
                               result |-> to_ollama_request(instances[i],
                                                            request)]>>]]
    /\ UNCHANGED <<available_models, tasks, notify_count, app_alive,
                   instances, requests, observed, last_report, project>>

\* OllamaLanguageModel::use_any_tool
use_any_tool == Err("not implemented")

\* LanguageModel::use_tool: the response of use_any_tool is awaited, an error
\* goes to the caller, a value is deserialized
use_tool ==
    LET response == use_any_tool
    IN  IF response.ok THEN Ok(<<"from_value", response.value>>)
        ELSE response

\* UseAnyTool, but the call goes through the instance's limiter first
UseAnyToolThroughLimiter(c, i) ==
    /\ calls[c].pc = "idle"
    /\ i \in DOMAIN instances
    /\ RateLimiter_permit_free(instances[i].request_limiter)
    /\ calls' = [calls EXCEPT ![c] =
                    [EndedCall([@ EXCEPT !.inst = i], "tool_error")
                        EXCEPT !.reply = <<[op |-> "use_any_tool",
                                            result |-> use_any_tool]>>]]
    /\ UNCHANGED <<available_models, tasks, notify_count, app_alive,
                   instances, requests, observed, last_report, project>>

\* a call of use_any_tool on instance i: the future is ready with the error
UseAnyTool(c, i) ==
    /\ calls[c].pc = "idle"
    /\ i \in DOMAIN instances
    /\ calls' = [calls EXCEPT ![c] =
                    [EndedCall([@ EXCEPT !.inst = i], "tool_error")
                        EXCEPT !.reply = <<[op |-> "use_any_tool",
                                            result |-> use_any_tool]>>]]
    /\ UNCHANGED <<available_models, tasks, notify_count, app_alive,
                   instances, requests, observed, last_report, project>>

\* a call of use_tool on instance i: what use_any_tool returned is awaited
UseTool(c, i) ==
    /\ calls[c].pc = "idle"
    /\ i \in DOMAIN instances
    /\ calls' = [calls EXCEPT ![c] =
                    [EndedCall([@ EXCEPT !.inst = i], "tool_error")
                        EXCEPT !.reply = <<[op |-> "use_tool",
                                            result |-> use_tool]>>]]
    /\ UNCHANGED <<available_models, tasks, notify_count, app_alive,
                   instances, requests, observed, last_report, project>>

(***************************************************************************)
(* Project::create_terminal and the release of a terminal.                 *)
(***************************************************************************)
\* terminals created in one project
MaxTerminals == 3

\* settings.activate_venv: Off, or On with one of the activation methods
VenvSettings == {"Off", "Custom", "Poetry"}

\* what create_terminal writes to the new terminal: the command that
\* sources the activate script when one was found, or the poetry command
VenvInput(python_settings, script_found) ==
    CASE python_settings = "Off" -> <<>>
      [] python_settings = "Custom" ->
             IF script_found THEN <<"source activate">> ELSE <<>>
      [] python_settings = "Poetry" -> <<"poetry shell">>

\* handles.iter().position(|terminal| terminal.id() == id): 0 for None
Position(handles, id) ==
    IF \E k \in 1..Len(handles) : handles[k] = id
    THEN CHOOSE k \in 1..Len(handles) :
             /\ handles[k] = id
             /\ \A j \in 1..(k - 1) : handles[j] # id
    ELSE 0

\* RemoveAt, but as Vec::swap_remove: the last handle takes the place
SwapRemoveAt(handles, index) ==
    [k \in 1..(Len(handles) - 1) |->
        IF k = index THEN handles[Len(handles)] ELSE handles[k]]

\* Vec::remove(index): the handles after it move up
RemoveAt(handles, index) ==
    SubSeq(handles, 1, index - 1) \o SubSeq(handles, index + 1, Len(handles))

\* Project::create_terminal: an error for a remote project and when the
\* terminal builder fails; otherwise the terminal is added, its weak handle
\* pushed, and the virtual environment activated in it
create_terminal(builder_ok, python_settings, script_found) ==
    /\ IF project.is_remote
       THEN project' =
                [project EXCEPT !.result =
                    <<Err("creating terminals as a guest is not supported yet")>>]
       ELSE IF ~builder_ok
            THEN project' = [project EXCEPT !.result = <<Err("builder")>>]
            ELSE /\ Len(project.terminals) < MaxTerminals
                 /\ LET id == Len(project.terminals) + 1
                    IN  project' =
                            [project EXCEPT
                                !.terminals =
                                    Append(@, [live |-> TRUE,
                                               input |-> VenvInput(python_settings,
                                                                   script_found)]),
                                !.local_handles = Append(@, id),
                                !.result = <<Ok(id)>>]
    /\ UNCHANGED <<available_models, tasks, notify_count, app_alive,
                   instances, calls, requests, observed, last_report>>

\* the last strong handle of terminal id is dropped: the callback of
\* observe_release removes the terminal's weak handle and notifies
ReleaseTerminal(id) ==
    /\ id \in DOMAIN project.terminals
    /\ project.terminals[id].live
    /\ LET index == Position(project.local_handles, id)
       IN  project' =
               [project EXCEPT
                   !.terminals[id].live = FALSE,
                   !.local_handles = IF index # 0 THEN RemoveAt(@, index)
                                     ELSE @,
                   !.notify_count = IF index # 0 THEN @ + 1 ELSE @]
    /\ UNCHANGED <<available_models, tasks, notify_count, app_alive,
                   instances, calls, requests, observed, last_report>>

(***************************************************************************)
(* Spec: the provider from its construction, with one caller.              *)
(***************************************************************************)
\* OllamaLanguageModelProvider::new: an empty snapshot and a detached probe
Init ==
    /\ available_models = <<>>
    /\ tasks = <<ProbeTask("new")>>
    /\ notify_count = 0
    /\ app_alive = TRUE
    /\ instances = <<>>
    /\ calls = [c \in 1..NumCalls |-> IdleCall]
    /\ requests = 0
    /\ observed = <<>>
    /\ last_report = NoReport
    /\ project = NewProject(FALSE)

Next ==
    \/ AppQuit
    \/ SettingsChanged
    \/ authenticate
    \/ reset_credentials
    \/ retry_connection
    \/ \E p \in 1..MaxTasks : ProbeFail(p)
    \/ \E p \in 1..MaxTasks, report \in SampleReports : ProbeSucceed(p, report)
    \/ \E k \in 1..MaxReport : LookupModel(k)
    \/ \E i \in 1..MaxInstances : load_model(i)
    \/ \E p \in 1..MaxTasks, status \in {"ok", "err"} : PreloadEnd(p, status)
    \/ \E i \in 1..MaxInstances : StreamCompletion(1, i)
    \/ \E i \in 1..MaxInstances, request \in SampleRequests :
          CountTokens(1, i, request)
    \/ \E i \in 1..MaxInstances : UseAnyTool(1, i)
    \/ Admit(1)
    \/ ResponseErr(1)
    \/ \E script \in ShortStreams : ResponseOk(1, script)
    \/ CancelCall(1)
    \/ PollNext(1)
    \/ DropStream(1)

Spec == Init /\ [][Next]_vars

(***************************************************************************)
(* SpecFetch: the provider alone, with every report of the backend.        *)
(***************************************************************************)
NextFetch ==
    \/ SettingsChanged
    \/ reset_credentials
    \/ \E p \in 1..MaxTasks : ProbeFail(p)
    \/ \E p \in 1..MaxTasks, report \in BackendReports : ProbeSucceed(p, report)
    \/ \E k \in 1..MaxReport : LookupModel(k)

SpecFetch == Init /\ [][NextFetch]_vars

(***************************************************************************)
(* SpecLimiter: NumCalls callers share one model instance.                 *)
(***************************************************************************)
InitLimiter ==
    /\ available_models = FetchedModels(<<NameA>>)
    /\ tasks = <<[ProbeTask("new") EXCEPT !.status = "ok"]>>
    /\ notify_count = 1
    /\ app_alive = TRUE
    /\ instances = <<[id |-> NameA, model |-> NewModel(NameA),
                      request_limiter |-> RateLimiter_new(LimiterCapacity)]>>
    /\ calls = [c \in 1..NumCalls |-> IdleCall]
    /\ requests = 0
    /\ observed = FetchedModels(<<NameA>>)
    /\ last_report = [got |-> TRUE, names |-> <<NameA>>, task |-> 1]
    /\ project = NewProject(FALSE)

NextLimiter ==
    \E c \in 1..NumCalls :
          \/ StreamCompletion(c, 1)
          \/ Admit(c)
          \/ ResponseErr(c)
          \/ \E script \in ShortStreams : ResponseOk(c, script)
          \/ CancelCall(c)
          \/ PollNext(c)
          \/ DropStream(c)

SpecLimiter == InitLimiter /\ [][NextLimiter]_vars

(***************************************************************************)
(* SpecSetup: two callers of one model instance, while the application     *)
(* state may be dropped.                                                   *)
(***************************************************************************)
NextSetup ==
    \/ AppQuit
    \/ \E c \in 1..2 :
          \/ StreamCompletion(c, 1)
          \/ Admit(c)
          \/ ResponseErr(c)
          \/ \E script \in ShortStreams : ResponseOk(c, script)
          \/ CancelCall(c)
          \/ PollNext(c)
          \/ DropStream(c)

SpecSetup == InitLimiter /\ [][NextSetup]_vars

(***************************************************************************)
(* SpecTool: as many streaming callers as the limiter has permits, and     *)
(* the other callers use tools, while the application state may be         *)
(* dropped.                                                                *)
(***************************************************************************)
NextTool ==
    \/ AppQuit
    \/ \E c \in 1..LimiterCapacity :
          \/ StreamCompletion(c, 1)
          \/ Admit(c)
          \/ \E script \in EmptyStreams : ResponseOk(c, script)
          \/ DropStream(c)
    \/ \E c \in (LimiterCapacity + 1)..NumCalls :
          \/ UseAnyTool(c, 1)
          \/ UseTool(c, 1)

SpecTool == InitLimiter /\ [][NextTool]_vars

(***************************************************************************)
(* SpecRequest: one call of count_tokens or one translation, with every    *)
(* request.                                                                *)
(***************************************************************************)
NextRequest ==
    /\ calls[1].pc = "idle"
    /\ \E request \in Requests :
          \/ CountTokens(1, 1, request)
          \/ ToOllamaRequest(1, 1, request)

SpecRequest == InitLimiter /\ [][NextRequest]_vars

(***************************************************************************)
(* SpecLookups: two lookups of provided_models have each given an instance *)
(* of the same model, and NumCalls callers use the two instances.          *)
(***************************************************************************)
InitLookups ==
    /\ available_models = FetchedModels(<<NameA>>)
    /\ tasks = <<[ProbeTask("new") EXCEPT !.status = "ok"]>>
    /\ notify_count = 1
    /\ app_alive = TRUE
    /\ instances = <<provided_models[1], provided_models[1]>>
    /\ calls = [c \in 1..NumCalls |-> IdleCall]
    /\ requests = 0
    /\ observed = FetchedModels(<<NameA>>)
    /\ last_report = [got |-> TRUE, names |-> <<NameA>>, task |-> 1]
    /\ project = NewProject(FALSE)

NextLookups ==
    \E c \in 1..NumCalls :
          \/ \E i \in 1..2 : StreamCompletion(c, i)
          \/ Admit(c)
          \/ \E script \in EmptyStreams : ResponseOk(c, script)
          \/ DropStream(c)

SpecLookups == InitLookups /\ [][NextLookups]_vars

(***************************************************************************)
(* SpecTerminals: a local or a remote project and its terminals.           *)
(***************************************************************************)
InitTerminals ==
    /\ available_models = <<>>
    /\ tasks = <<ProbeTask("new")>>
    /\ notify_count = 0
    /\ app_alive = TRUE
    /\ instances = <<>>
    /\ calls = [c \in 1..NumCalls |-> IdleCall]
    /\ requests = 0
    /\ observed = <<>>
    /\ last_report = NoReport
    /\ project \in {NewProject(FALSE), NewProject(TRUE)}

NextTerminals ==
    \/ \E builder_ok \in BOOLEAN, python_settings \in VenvSettings,
          script_found \in BOOLEAN :
          create_terminal(builder_ok, python_settings, script_found)
    \/ \E id \in 1..MaxTerminals : ReleaseTerminal(id)

SpecTerminals == InitTerminals /\ [][NextTerminals]_vars

(***************************************************************************)
(* SpecStream: one call, every response stream of the backend.             *)
(***************************************************************************)
NextStream ==
    \/ StreamCompletion(1, 1)
    \/ Admit(1)
    \/ ResponseErr(1)
    \/ \E script \in AllStreams : ResponseOk(1, script)
    \/ CancelCall(1)
    \/ PollNext(1)
    \/ DropStream(1)

SpecStream == InitLimiter /\ [][NextStream]_vars

(***************************************************************************)
(* LiveLimiter: the callers of SpecLimiter, with response streams that     *)
(* carry no event.  Some step that is possible is taken: the limiter       *)
(* admits a suspended caller when a permit is free, the backend answers a  *)
(* request, the consumer polls or drops its stream.                        *)
(***************************************************************************)
Proceed(c) ==
    \/ Admit(c)
    \/ ResponseErr(c)
    \/ \E script \in EmptyStreams : ResponseOk(c, script)
    \/ PollNext(c)
    \/ DropStream(c)

NextLive ==
    \E c \in 1..NumCalls :
          \/ StreamCompletion(c, 1)
          \/ CancelCall(c)
          \/ Proceed(c)

LiveLimiter ==
    InitLimiter /\ [][NextLive]_vars /\ WF_vars(\E c \in 1..NumCalls : Proceed(c))

(***************************************************************************)
(* Properties.                                                             *)
(***************************************************************************)
\* the calls of instance i that hold a permit: admitted and not yet over
Executing(i) ==
    {c \in 1..NumCalls :
        calls[c].inst = i /\ calls[c].pc \in {"requesting", "streaming"}}

\* the calls of instance i whose stream is with the consumer
OpenStreams(i) ==
    {c \in 1..NumCalls : calls[c].inst = i /\ calls[c].pc = "streaming"}

InFlight(i) == instances[i].request_limiter.in_flight

\* C1: the in-flight count of every limiter stays within 0..capacity (4), and
\* at most capacity calls of an instance execute at once, so a further caller
\* has not started while capacity calls are in flight.
C1_InFlightWithinCapacity ==
    \A i \in DOMAIN instances :
        /\ instances[i].request_limiter.capacity = LimiterCapacity
        /\ InFlight(i) \in 0..LimiterCapacity
        /\ Cardinality(Executing(i)) <= LimiterCapacity

\* capacity calls execute and one more caller is suspended
C1_Witness ==
    /\ Cardinality(Executing(1)) = LimiterCapacity
    /\ \E c \in 1..NumCalls : calls[c].pc = "waiting" /\ calls[c].inst = 1

\* C2: a stream handed to its consumer still holds its permit: the open
\* streams of an instance are counted in flight, and while capacity streams
\* are open no permit is free and no further call has been admitted.
C2_StreamKeepsPermit ==
    \A i \in DOMAIN instances :
        /\ InFlight(i) >= Cardinality(OpenStreams(i))
        /\ Cardinality(OpenStreams(i)) = LimiterCapacity =>
              /\ ~RateLimiter_permit_free(instances[i].request_limiter)
              /\ \A c \in 1..NumCalls :
                    calls[c].inst = i => calls[c].pc # "requesting"

\* capacity undrained streams are open and one more caller is suspended
C2_Witness ==
    /\ Cardinality({c \in OpenStreams(1) :
                       calls[c].pos < Len(calls[c].script)}) = LimiterCapacity
    /\ \E c \in 1..NumCalls : calls[c].pc = "waiting" /\ calls[c].inst = 1

\* every permit taken is held by a call that is admitted and not yet over
NoLeak == \A i \in DOMAIN instances : InFlight(i) = Cardinality(Executing(i))

\* a caller leaves the limiter's queue only admitted or by its own cancellation
LeavesAdmittedOrCancelled ==
    \A c \in 1..NumCalls :
        (calls[c].pc = "waiting" /\ calls'[c].pc # "waiting") =>
            \/ calls'[c].pc = "requesting"
            \/ calls'[c].outcome = "cancelled"

NoneWaiting == \A c \in 1..NumCalls : calls[c].pc # "waiting"

\* C3: no exit path of an admitted call leaks its permit, and, when admitted
\* calls go on to their end, the callers suspended on the limiter do not stay
\* suspended: each is admitted, unless it cancels itself.
C3_NoLeakAllAdmitted ==
    /\ []NoLeak
    /\ [][LeavesAdmittedOrCancelled]_vars
    /\ <>[]NoneWaiting

\* more calls than the limiter has permits were admitted and are over, by
\* error and by the end of a stream, and every permit is back
C3_Witness ==
    /\ \A c \in 1..NumCalls : calls[c].pc = "ended"
    /\ \A o \in {"error", "stream"} :
          \E c \in 1..NumCalls : calls[c].outcome = o
    /\ Cardinality({c \in 1..NumCalls : calls[c].outcome \in {"error", "stream"}})
          > LimiterCapacity
    /\ InFlight(1) = 0

\* the texts of the successful items of a stream, in order
DeliveredTexts(items) ==
    LET oks == SelectSeq(items, LAMBDA it : it.ok)
    IN  [k \in 1..Len(oks) |-> oks[k].text]

\* the content fragments of the successful delta events, in order
BackendContents(events) ==
    LET oks == SelectSeq(events, LAMBDA e : e.ok)
    IN  [k \in 1..Len(oks) |-> oks[k].content]

\* C4: the text deltas delivered so far are the content fragments of the
\* successful backend events consumed so far, in the backend's order, whatever
\* their role tags.
C4_DeltasInBackendOrder ==
    \A c \in 1..NumCalls :
        calls[c].pc = "streaming" =>
            DeliveredTexts(calls[c].delivered) =
                BackendContents(SubSeq(calls[c].script, 1, calls[c].pos))

\* a stream of three deltas with three role tags, consumed to its end
C4_Witness ==
    \E c \in 1..NumCalls :
        /\ calls[c].pc = "streaming"
        /\ calls[c].pos = 3
        /\ {calls[c].script[k].role : k \in 1..3} = Roles
        /\ Len(DeliveredTexts(calls[c].delivered)) = 3

\* C5: an error item is the last item of a stream: nothing is delivered
\* after it.
C5_NothingAfterError ==
    \A c \in 1..NumCalls :
        \A k \in 1..Len(calls[c].delivered) :
            ~calls[c].delivered[k].ok => k = Len(calls[c].delivered)

\* C6: a call made when the application state is gone ends at once with an
\* error, takes no permit and issues no request; a failed initial backend call
\* ends the call with an error, without a stream, and gives its permit back.
C6_SetupErrorsAreCallResults ==
    [][\A c \in 1..NumCalls :
          /\ (calls[c].pc = "idle" /\ calls'[c].pc # "idle" /\ ~app_alive) =>
                /\ calls'[c].pc = "ended"
                /\ calls'[c].outcome = "app_dropped"
                /\ calls'[c].delivered = <<>>
                /\ instances' = instances
                /\ requests' = requests
          /\ (calls[c].pc = "requesting" /\ calls'[c].outcome = "error") =>
                /\ calls'[c].pc = "ended"
                /\ calls'[c].delivered = <<>>
                /\ InFlight(calls[c].inst)' = InFlight(calls[c].inst) - 1
      ]_vars

\* one call ended at once because the application state was gone, another
\* ended with the backend's error, and no permit is held for either
C6_Witness ==
    /\ \E c \in 1..NumCalls : calls[c].outcome = "app_dropped"
    /\ \E c \in 1..NumCalls : calls[c].outcome = "error"
    /\ NoLeak

\* C7: a call made while the snapshot is empty ends at once with
\* AuthenticationRequired, and no chat request is issued while the snapshot
\* is empty.
C7_EmptySnapshotFailsFast ==
    [][/\ \A c \in 1..NumCalls :
             (calls[c].pc = "idle" /\ calls'[c].pc # "idle"
                 /\ app_alive /\ ~is_authenticated) =>
                 /\ calls'[c].pc = "ended"
                 /\ calls'[c].outcome = "authentication_required"
       /\ (requests' # requests) => is_authenticated
      ]_vars

\* C8: is_authenticated() is true exactly when the snapshot holds a model,
\* which is when provided_models() returns one.
C8_AuthenticatedIffModels ==
    /\ is_authenticated <=> Len(available_models) >= 1
    /\ is_authenticated <=> Len(provided_models) >= 1

\* a probe has succeeded with an empty list: probed, and not authenticated
C8_Witness ==
    /\ \E p \in DOMAIN tasks : tasks[p].probe /\ tasks[p].status = "ok"
    /\ ~is_authenticated
    /\ available_models = <<>>

\* C9: when the provider is authenticated and a probe fails because the
\* backend is unreachable, the provider is unauthenticated after the probe.
C9_FailedProbeUnauthenticates ==
    [][\A p \in DOMAIN tasks :
          (is_authenticated /\ app_alive /\ tasks[p].status = "pending"
              /\ tasks'[p].status = "err") => ~is_authenticated'
      ]_vars

\* C10: the step in which a probe fails changes neither the snapshot nor the
\* authentication status, notifies nobody, and touches no task but the
\* probe's own.
C10_FailedProbeChangesNothing ==
    [][\A p \in DOMAIN tasks :
          (tasks[p].status = "pending" /\ tasks'[p].status = "err") =>
              /\ available_models' = available_models
              /\ is_authenticated' = is_authenticated
              /\ notify_count' = notify_count
              /\ DOMAIN tasks' = DOMAIN tasks
              /\ \A q \in DOMAIN tasks : q # p => tasks'[q] = tasks[q]
      ]_vars

\* a probe started on an authenticated provider has failed, and the provider
\* is still authenticated
C10_Witness ==
    /\ is_authenticated
    /\ \E p \in DOMAIN tasks :
          /\ tasks[p].status = "err"
          /\ tasks[p].origin \in {"reset_credentials", "retry_connection",
                                  "settings"}

\* the step appends a task created by the given entry point
Starts(origin) ==
    /\ Len(tasks') = Len(tasks) + 1
    /\ tasks'[Len(tasks')].origin = origin

\* C11: authenticate() on an authenticated provider returns a task that is
\* already completed with success, starts no probe, leaves the snapshot
\* unchanged and notifies no subscriber; on an unauthenticated provider it
\* starts a probe.
C11_AuthenticateIdempotent ==
    [][Starts("authenticate") =>
          IF is_authenticated
          THEN /\ tasks'[Len(tasks')] = ReadyTask("authenticate")
               /\ \A p \in DOMAIN tasks : tasks'[p] = tasks[p]
               /\ available_models' = available_models
               /\ notify_count' = notify_count
               /\ observed' = observed
          ELSE tasks'[Len(tasks')] = ProbeTask("authenticate")
      ]_vars

\* authenticate() was called on an authenticated provider: its task is
\* complete, the only probe there ever was is the constructor's
C11_Witness ==
    /\ is_authenticated
    /\ Len(tasks) = 2
    /\ tasks[1] = [ProbeTask("new") EXCEPT !.status = "ok"]
    /\ tasks[2] = ReadyTask("authenticate")

\* C12: reset_credentials() always starts a new probe, and from the call on
\* the list cached before it is no longer served: provided_models() is empty
\* and is_authenticated() is false until a probe succeeds.
C12_ResetDiscardsSnapshot ==
    [][Starts("reset_credentials") =>
          /\ tasks'[Len(tasks')] = ProbeTask("reset_credentials")
          /\ available_models' = <<>>
          /\ provided_models' = <<>>
          /\ ~is_authenticated'
      ]_vars

\* the step in which a probe started by one of the given entry points succeeds
ProbeSucceeds(origins) ==
    \E p \in DOMAIN tasks :
        /\ tasks[p].probe
        /\ tasks[p].origin \in origins
        /\ tasks[p].status = "pending"
        /\ tasks'[p].status = "ok"

\* C13 as stated: the snapshot and the authentication status change only in
\* the step of a probe started by authenticate(), by reset_credentials() or
\* by a settings change.
C13_OnlyCallsOrSettingsChange ==
    [][(available_models' # available_models
           \/ is_authenticated' # is_authenticated) =>
          ProbeSucceeds({"authenticate", "reset_credentials", "settings"})
      ]_vars

\* C13, amended: the snapshot and the authentication status change only in
\* the step in which a probe succeeds, and a probe is started by the
\* constructor, a settings change, authenticate(), reset_credentials() or the
\* configuration view's retry; no step of a stream_completion, count_tokens
\* or use_any_tool call, ending well or not, changes the snapshot.
C13_OnlyProbesChangeSnapshot ==
    [][/\ (available_models' # available_models
            \/ is_authenticated' # is_authenticated) =>
              ProbeSucceeds({"new", "settings", "authenticate",
                             "reset_credentials", "retry_connection"})
       /\ (calls' # calls) =>
              /\ available_models' = available_models
              /\ is_authenticated' = is_authenticated
      ]_vars

\* the retry's probe has succeeded, and a completion call has failed on the
\* authenticated provider
C13_Witness ==
    /\ \E p \in DOMAIN tasks :
          tasks[p].origin = "retry_connection" /\ tasks[p].status = "ok"
    /\ is_authenticated
    /\ calls[1].outcome = "error"

\* C14: load_model() returns nothing to its caller: it leaves a detached
\* preload task whose error goes to the log; neither the call nor the end of
\* the preload, with success or with an error, changes the snapshot, the
\* authentication status or any call, and nobody is notified.
C14_LoadModelBestEffort ==
    [][/\ Starts("load_model") =>
              /\ tasks'[Len(tasks')] = PreloadTask
              /\ tasks'[Len(tasks')].sink = "log"
              /\ available_models' = available_models
              /\ notify_count' = notify_count
              /\ calls' = calls
       /\ \A p \in DOMAIN tasks :
              (tasks[p].origin = "load_model"
                  /\ tasks'[p].status # tasks[p].status) =>
                  /\ tasks'[p].status \in {"ok", "err"}
                  /\ tasks[p].sink = "log"
                  /\ available_models' = available_models
                  /\ is_authenticated' = is_authenticated
                  /\ notify_count' = notify_count
                  /\ calls' = calls
      ]_vars

\* a preload has failed and the provider is still authenticated
C14_Witness ==
    /\ is_authenticated
    /\ \E p \in DOMAIN tasks :
          tasks[p].origin = "load_model" /\ tasks[p].status = "err"

\* a list of models is in ascending order of name
SortedByName(models) ==
    \A k \in 1..(Len(models) - 1) :
        NameCmp(models[k].name, models[k + 1].name) <= 0

NamesOf(models) == [k \in 1..Len(models) |-> models[k].name]

\* C15: the snapshot is sorted ascending by model name in every state, and
\* provided_models() returns the models in that order; it holds the models
\* of the last installed report, so that the report ["b", "a"] is served as
\* ["a", "b"].
C15_SnapshotSortedByName ==
    /\ SortedByName(available_models)
    /\ [k \in 1..Len(provided_models) |-> provided_models[k].id]
          = NamesOf(available_models)
    /\ last_report.got =>
          {available_models[k].name : k \in 1..Len(available_models)}
              = {n \in {last_report.names[k] : k \in 1..Len(last_report.names)} :
                    ~Contains(n, EmbedMarker)}
    /\ last_report.names = <<NameB, NameA>> =>
          NamesOf(available_models) = <<NameA, NameB>>

\* the backend reported ["b", "a"] and the snapshot is ["a", "b"]
C15_Witness ==
    /\ last_report.got
    /\ last_report.names = <<NameB, NameA>>
    /\ NamesOf(available_models) = <<NameA, NameB>>
    /\ Len(provided_models) = 2

\* the tool calls that are over
ToolCalls == {c \in 1..NumCalls : calls[c].outcome = "tool_error"}

\* C16: use_any_tool can be called in every state, also while every permit
\* of the instance is held and when the application state is gone; the call
\* is over in one step with the error "not implemented", takes no permit
\* and issues no backend request; use_tool ends with the same error.
C16_ToolUseUnsupported ==
    /\ [](\A c \in 1..NumCalls, i \in DOMAIN instances :
             calls[c].pc = "idle" => ENABLED UseAnyTool(c, i))
    /\ [][\A c \in 1..NumCalls :
             (calls[c].pc = "idle" /\ calls'[c].reply # <<>>
                 /\ calls'[c].reply[1].op \in {"use_any_tool", "use_tool"}) =>
                 /\ calls'[c].pc = "ended"
                 /\ ~calls'[c].reply[1].result.ok
                 /\ calls'[c].reply[1].result = Err("not implemented")
                 /\ calls'[c].delivered = <<>>
                 /\ instances' = instances
                 /\ requests' = requests
          ]_vars

\* every permit is held by an open stream, and a use_tool call is over
C16_Witness ==
    /\ Cardinality(OpenStreams(1)) = LimiterCapacity
    /\ ~RateLimiter_permit_free(instances[1].request_limiter)
    /\ \E c \in ToolCalls : calls[c].reply[1].op = "use_tool"

\* the snapshot is the whole list of one report: the last one installed
WholeReport ==
    available_models =
        IF last_report.got THEN FetchedModels(last_report.names) ELSE <<>>

\* C17: a successful probe installs its whole list in one step; the snapshot
\* read in any state is the list of one report, never a mixture; each step
\* that changes the snapshot notifies, and the subscriber's callback reads
\* the new list.
C17_SwapThenNotify ==
    /\ [](WholeReport /\ observed = available_models)
    /\ [][(available_models' # available_models) =>
             /\ ProbeSucceeds({"new", "settings", "authenticate",
                               "reset_credentials", "retry_connection"})
             /\ available_models' = FetchedModels(last_report'.names)
             /\ notify_count' = notify_count + 1
             /\ observed' = available_models'
          ]_vars

\* two probes have installed their lists, the second ["b"], and the
\* subscriber has read it
C17_Witness ==
    /\ Len(tasks) = 2
    /\ \A p \in 1..2 : tasks[p].probe /\ tasks[p].status = "ok"
    /\ notify_count >= 2
    /\ last_report.names = <<NameB>>
    /\ observed = FetchedModels(<<NameB>>)

\* no probe has succeeded so far
NeverProbedOk ==
    \A p \in DOMAIN tasks : ~(tasks[p].probe /\ tasks[p].status = "ok")

AllOrigins ==
    {"new", "settings", "authenticate", "reset_credentials",
     "retry_connection"}

\* C18: the provider starts with an empty snapshot and with the
\* constructor's probe in flight, and stays unauthenticated until a probe
\* succeeds; a settings change (a notification that is not a probe's)
\* starts a probe of its own, with no authenticate() call; the step in which
\* a probe succeeds installs the models of its report.
C18_ProbesWithoutAuthenticate ==
    /\ available_models = <<>>
    /\ tasks = <<ProbeTask("new")>>
    /\ [](tasks[1].origin = "new" /\ tasks[1].probe)
    /\ [](NeverProbedOk => available_models = <<>> /\ ~is_authenticated)
    /\ [][/\ (notify_count' # notify_count /\ ~ProbeSucceeds(AllOrigins)) =>
                /\ Starts("settings")
                /\ tasks'[Len(tasks')] = ProbeTask("settings")
          /\ ProbeSucceeds(AllOrigins) =>
                /\ last_report'.got
                /\ available_models' = FetchedModels(last_report'.names)
                /\ is_authenticated' = (FilterEmbed(last_report'.names) # <<>>)
         ]_vars

\* authenticate() was never called, and the probe of a settings change has
\* made the provider authenticated after the constructor's probe had failed
C18_Witness ==
    /\ \A p \in DOMAIN tasks : tasks[p].origin # "authenticate"
    /\ Len(tasks) = 2
    /\ tasks[1] = [ProbeTask("new") EXCEPT !.status = "err"]
    /\ tasks[2] = [ProbeTask("settings") EXCEPT !.status = "ok"]
    /\ is_authenticated

\* the texts of the messages, one after the other
RECURSIVE ConcatContents(_)
ConcatContents(messages) ==
    IF messages = <<>> THEN <<>>
    ELSE Head(messages).content \o ConcatContents(Tail(messages))

\* the replies of the calls of one operation
RepliesOf(op) ==
    {calls[c].reply[1] : c \in {d \in 1..NumCalls :
                                   /\ calls[d].reply # <<>>
                                   /\ calls[d].reply[1].op = op}}

\* C19: count_tokens never fails, and its count k is the number of chars of
\* all messages together divided by 4, rounded down: 4k <= chars < 4k + 4
\* (so 4k chars give k, and the division is of the sum, not per message).
C19_TokensAreCharsDivFour ==
    \A r \in RepliesOf("count_tokens") :
        LET chars == Len(ConcatContents(r.request.messages))
        IN  /\ r.result.ok
            /\ r.result.value \in Nat
            /\ 4 * r.result.value <= chars
            /\ chars < 4 * r.result.value + 4

\* messages of 3 and 5 chars were counted as 2 tokens
C19_Witness ==
    \E r \in RepliesOf("count_tokens") :
        /\ Len(r.request.messages) = 2
        /\ Len(r.request.messages[1].content) = 3
        /\ Len(r.request.messages[2].content) = 5
        /\ r.result = Ok(2)

\* the backend tag each role of a request message is to be sent with
BackendTag(role) ==
    CASE role = "Role::User" -> "User"
      [] role = "Role::Assistant" -> "Assistant"
      [] role = "Role::System" -> "System"

\* C20: the chat request of a call has one message per request message, in
\* the same order and with the same content, each under the tag of its role,
\* and different roles have different tags; its options carry the request's
\* stop sequences and temperature and the context window of the instance's
\* model; it names that model and asks for a stream.
C20_RequestTranslated ==
    \A c \in 1..NumCalls :
        (calls[c].reply # <<>> /\ calls[c].reply[1].op = "to_ollama_request") =>
            LET req == calls[c].reply[1].request
                out == calls[c].reply[1].result
                self == instances[calls[c].inst]
            IN  /\ Len(out.messages) = Len(req.messages)
                /\ \A k \in 1..Len(req.messages) :
                      /\ out.messages[k].content = req.messages[k].content
                      /\ out.messages[k].variant = BackendTag(req.messages[k].role)
                /\ \A j, k \in 1..Len(req.messages) :
                      (req.messages[j].role # req.messages[k].role) =>
                          out.messages[j].variant # out.messages[k].variant
                /\ out.options.stop = Some(req.stop)
                /\ out.options.temperature = Some(req.temperature)
                /\ out.options.num_ctx = Some(self.model.max_tokens)
                /\ out.model = self.model.name
                /\ out.stream = TRUE

\* a request of a system message and a user message with different texts, a
\* stop sequence and a temperature was translated
C20_Witness ==
    \E c \in 1..NumCalls :
        /\ calls[c].reply # <<>>
        /\ calls[c].reply[1].op = "to_ollama_request"
        /\ LET req == calls[c].reply[1].request
               out == calls[c].reply[1].result
           IN  /\ Len(req.messages) = 2
               /\ req.messages[1].role = "Role::System"
               /\ req.messages[2].role = "Role::User"
               /\ req.messages[1].content # req.messages[2].content
               /\ req.stop # <<>>
               /\ req.temperature = 1
               /\ Len(out.messages) = 2

\* the calls that hold a permit for the model of the given name, whatever
\* the instance they were made on
ExecutingOnModel(name) ==
    {c \in 1..NumCalls :
        /\ calls[c].pc \in {"requesting", "streaming"}
        /\ instances[calls[c].inst].id = name}

\* C21: at most capacity (4) completion calls are in flight against one
\* backend model at once, also when they were made on instances from
\* different lookups of that model.
C21_StreamsPerModelWithinCapacity ==
    \A name \in ModelNames :
        Cardinality(ExecutingOnModel(name)) <= LimiterCapacity

\* the probes in flight
PendingProbes ==
    {p \in DOMAIN tasks : tasks[p].probe /\ tasks[p].status = "pending"}

\* C22: refreshes are not coalesced: a step that starts a probe adds a
\* pending probe of its own and leaves the probes in flight as they were;
\* the step in which a probe succeeds installs that probe's list, whichever
\* probes succeeded before it; so in every state, and when no probe is in
\* flight any more, the snapshot is the list of the probe that succeeded
\* last.
C22_LastCompletedProbeWins ==
    /\ [](last_report.got =>
             /\ tasks[last_report.task].probe
             /\ tasks[last_report.task].status = "ok"
             /\ available_models = FetchedModels(last_report.names))
    /\ [][/\ \A o \in AllOrigins :
                (Starts(o) /\ tasks'[Len(tasks')].probe) =>
                    /\ tasks' = Append(tasks, ProbeTask(o))
                    /\ PendingProbes' = PendingProbes \cup {Len(tasks')}
          /\ \A p \in DOMAIN tasks :
                (tasks[p].probe /\ tasks[p].status = "pending"
                    /\ tasks'[p].status = "ok") =>
                    /\ last_report'.task = p
                    /\ available_models' = FetchedModels(last_report'.names)
         ]_vars

\* two probes overlapped, the one started last succeeded first with one
\* list, the constructor's succeeded after it with another, no probe is in
\* flight, and the snapshot is the constructor's list
C22_Witness ==
    /\ Len(tasks) = 2
    /\ PendingProbes = {}
    /\ \A p \in 1..2 : tasks[p].probe /\ tasks[p].status = "ok"
    /\ last_report.task = 1
    /\ available_models = FetchedModels(last_report.names)
    /\ observed = available_models

\* the ids of the terminals that are alive, in the order of their creation
LiveTerminals ==
    SelectSeq([id \in 1..Len(project.terminals) |-> id],
              LAMBDA id : project.terminals[id].live)

\* the handles without the one of terminal id, in their order
WithoutTerminal(handles, id) == SelectSeq(handles, LAMBDA h : h # id)

\* C23: local_handles are the handles of the live terminals created in the
\* project; a successful create_terminal appends the handle of the new
\* terminal; the release of a terminal removes its handle only, keeps the
\* order of the others and notifies once; a create_terminal that returns an
\* error (remote project, builder failure) leaves local_handles unchanged.
C23_HandlesTrackLiveTerminals ==
    /\ [](/\ project.local_handles = LiveTerminals
          /\ project.is_remote => project.terminals = <<>>)
    /\ [][/\ (Len(project'.terminals) > Len(project.terminals)) =>
                /\ project'.result = <<Ok(Len(project'.terminals))>>
                /\ project'.local_handles =
                      Append(project.local_handles, Len(project'.terminals))
                /\ project'.notify_count = project.notify_count
          /\ \A id \in DOMAIN project.terminals :
                (project.terminals[id].live /\ ~project'.terminals[id].live) =>
                    /\ project'.local_handles =
                          WithoutTerminal(project.local_handles, id)
                    /\ Len(project'.local_handles) =
                          Len(project.local_handles) - 1
                    /\ project'.notify_count = project.notify_count + 1
          /\ (project'.result # project.result /\ ~project'.result[1].ok) =>
                /\ project'.local_handles = project.local_handles
                /\ project'.terminals = project.terminals
         ]_vars

\* three terminals were created, the first was released, and then a
\* create_terminal failed in the builder: the handles are those of the
\* second and the third, in this order
C23_Witness ==
    /\ Len(project.terminals) = 3
    /\ project.local_handles = <<2, 3>>
    /\ project.notify_count = 1
    /\ project.result = <<Err("builder")>>

====
